---- MODULE Spec2Model ----
(***************************************************************************)
(* A model of the API Tester request execution and persistence engine:    *)
(* config.Config (domain policy), tools.py (dispatcher and template       *)
(* tools) and storage.SimpleStorage (template store, history log,         *)
(* statistics, import/export).                                            *)
(*                                                                         *)
(* Python values are modelled as follows.  A dict is a function whose     *)
(* DOMAIN is its key set; d.get(k) is the set {d[k]} when k is a key and  *)
(* {} when it is not; None is {} and a present value v is {v}.  A str     *)
(* that the code inspects character by character (URLs, domain list       *)
(* entries) is a sequence of one-character strings.                       *)
(***************************************************************************)
EXTENDS Integers, Sequences, FiniteSets, TLC

VARIABLES
    SAVE_REQUESTS_TO_FILE, \* Config.SAVE_REQUESTS_TO_FILE: bool
    ALLOWED_DOMAINS,   \* Config.ALLOWED_DOMAINS: list of str
    BLOCKED_DOMAINS,   \* Config.BLOCKED_DOMAINS: list of str
    saved_requests,    \* SimpleStorage.saved_requests: name -> template dict
    history,           \* SimpleStorage.history: list of entry dicts, newest first
    files,             \* the files at REQUESTS_FILE_PATH and HISTORY_FILE_PATH
    now,               \* the wall clock read by datetime.now()
    probe,             \* the URL (by components) handed to the last policy call
    calls,             \* per client, the tool call it has in flight and its result
    last               \* the last call and what it returned

vars == <<SAVE_REQUESTS_TO_FILE, ALLOWED_DOMAINS, BLOCKED_DOMAINS, saved_requests,
          history, files, now, probe, calls, last>>

-----------------------------------------------------------------------------
(* Bounds of the model *)

MAX_HISTORY == 2
MaxClock == 1
MaxListLen == 1

(* Program constants *)

DEFAULT_TIMEOUT == 30
MAX_RESPONSE_SIZE == 10485760

-----------------------------------------------------------------------------
(* Python dict and str helpers *)

None == {}

EmptyDict == <<>>

\* d.get(k) for a key whose value is never None: None or the value
Opt(d, k) == IF k \in DOMAIN d THEN {d[k]} ELSE None

\* d.get(k) for a key whose value is itself None or a value
Get(d, k) == IF k \in DOMAIN d THEN d[k] ELSE None

\* bool(x) for x None or a str: None and "" are falsy
Truthy(x) == x # None /\ x # {""}

\* d.get(k, default)
GetOr(d, k, default) == IF k \in DOMAIN d THEN d[k] ELSE default

\* {**a, **b} and a.update(b): b wins on a shared key
DictUpdate(a, b) ==
    [k \in (DOMAIN a) \cup (DOMAIN b) |-> IF k \in DOMAIN b THEN b[k] ELSE a[k]]

\* del d[k] / d.pop(k, None)
DictRemove(d, k) == [j \in (DOMAIN d) \ {k} |-> d[j]]

\* a + b on lists
Concat(a, b) == a \o b

\* s[:n]
Take(s, n) == SubSeq(s, 1, IF n < Len(s) THEN n ELSE Len(s))

LowerChar(c) ==
    CASE c = "A" -> "a"
      [] c = "B" -> "b"
      [] c = "H" -> "h"
      [] OTHER -> c

\* str.lower()
Lower(s) == [i \in 1..Len(s) |-> LowerChar(s[i])]

RECURSIVE LStrip(_)
LStrip(s) == IF s # <<>> /\ Head(s) = " " THEN LStrip(Tail(s)) ELSE s

RECURSIVE RStrip(_)
RStrip(s) ==
    IF s # <<>> /\ s[Len(s)] = " " THEN RStrip(SubSeq(s, 1, Len(s) - 1)) ELSE s

\* str.strip()
Strip(s) == RStrip(LStrip(s))

\* `sub in s` on str
Contains(s, sub) ==
    \E i \in 0..(Len(s) - Len(sub)) : SubSeq(s, i + 1, i + Len(sub)) = sub

\* s.find(c) + 1: the 1-based index of the first c, 0 when there is none
Find(s, c) ==
    IF \E i \in 1..Len(s) : s[i] = c
    THEN CHOOSE i \in 1..Len(s) : s[i] = c /\ \A j \in 1..(i - 1) : s[j] # c
    ELSE 0

-----------------------------------------------------------------------------
(* urllib.parse.urlparse, as far as scheme and netloc go *)

SchemeChars == {"h", "H", "a", "A", "b", "B", "8", "."}

\* the 1-based index of the ':' that ends a scheme, 0 when the URL has none
SchemeEnd(url) ==
    LET i == Find(url, ":")
    IN  IF i > 1 /\ \A j \in 1..(i - 1) : url[j] \in SchemeChars THEN i ELSE 0

UrlScheme(url) ==
    IF SchemeEnd(url) > 0 THEN Lower(SubSeq(url, 1, SchemeEnd(url) - 1)) ELSE <<>>

AfterScheme(url) == SubSeq(url, SchemeEnd(url) + 1, Len(url))

\* the netloc: what follows '//' up to the next '/', '?' or '#'
UrlNetloc(url) ==
    LET rest == AfterScheme(url)
    IN  IF Len(rest) >= 2 /\ rest[1] = "/" /\ rest[2] = "/"
        THEN LET tail == SubSeq(rest, 3, Len(rest))
                 ends == {i \in 1..Len(tail) : tail[i] \in {"/", "?", "#"}}
                 stop == IF ends = {} THEN Len(tail) + 1
                         ELSE CHOOSE i \in ends : \A j \in ends : i <= j
             IN  SubSeq(tail, 1, stop - 1)
        ELSE <<>>

\* A URL written from its components; an absent component is the empty string
UrlString(u) ==
    (IF u.scheme # <<>> THEN u.scheme \o <<":">> ELSE <<>>)
    \o (IF u.slashes THEN <<"/", "/">> ELSE <<>>)
    \o (IF u.userinfo # <<>> THEN u.userinfo \o <<"@">> ELSE <<>>)
    \o u.host
    \o (IF u.port # <<>> THEN <<":">> \o u.port ELSE <<>>)
    \o u.path

-----------------------------------------------------------------------------
(* config.py: Config.is_url_allowed *)

\* the first entry of the list that is non-empty after strip() and occurs in domain
MatchesAny(list, domain) ==
    \E i \in 1..Len(list) :
        /\ Strip(list[i]) # <<>>
        /\ Contains(domain, Lower(Strip(list[i])))

\* an is_url_allowed that consults the allow-list before the block-list
is_url_allowed_allow_first(allowed, blocked, url) ==
    LET domain == Lower(UrlNetloc(url))
    IN  IF allowed = <<>> /\ blocked = <<>> THEN TRUE
        ELSE IF allowed # <<>> /\ MatchesAny(allowed, domain) THEN TRUE
        ELSE IF blocked # <<>> /\ MatchesAny(blocked, domain) THEN FALSE
        ELSE allowed = <<>>

is_url_allowed(allowed, blocked, url) ==
    LET domain == Lower(UrlNetloc(url))
    IN  IF allowed = <<>> /\ blocked = <<>> THEN TRUE
        ELSE IF blocked # <<>> /\ MatchesAny(blocked, domain) THEN FALSE
        ELSE IF allowed # <<>> THEN MatchesAny(allowed, domain)
        ELSE TRUE

(* tools.py: validate_url *)

validate_url(allowed, blocked, url) ==
    IF UrlScheme(url) = <<>> \/ UrlNetloc(url) = <<>> THEN FALSE
    ELSE is_url_allowed(allowed, blocked, url)

-----------------------------------------------------------------------------
(* storage.py: SimpleStorage *)

\* a _clean_request_data that forgets the timeout
_clean_request_data_no_timeout(request_data) ==
    [method   |-> Opt(request_data, "method"),
     url      |-> Opt(request_data, "url"),
     headers  |-> GetOr(request_data, "headers", EmptyDict),
     params   |-> GetOr(request_data, "params", EmptyDict),
     has_body |-> Truthy(Get(request_data, "body")),
     timeout  |-> None]

_clean_request_data(request_data) ==
    [method   |-> Opt(request_data, "method"),
     url      |-> Opt(request_data, "url"),
     headers  |-> GetOr(request_data, "headers", EmptyDict),
     params   |-> GetOr(request_data, "params", EmptyDict),
     has_body |-> Truthy(Get(request_data, "body")),
     timeout  |-> Opt(request_data, "timeout")]

\* a _clean_response_data that stores an error field for every response
_clean_response_data_always_error(response_data) ==
    [status_code  |-> Get(response_data, "status_code"),
     status_text  |-> Get(response_data, "status_text"),
     size         |-> Get(response_data, "size"),
     time_ms      |-> Get(response_data, "time_ms"),
     content_type |-> Opt(GetOr(response_data, "headers", EmptyDict), "content-type"),
     error        |-> GetOr(response_data, "error", "")]

_clean_response_data(response_data) ==
    LET cleaned ==
            [status_code  |-> Get(response_data, "status_code"),
             status_text  |-> Get(response_data, "status_text"),
             size         |-> Get(response_data, "size"),
             time_ms      |-> Get(response_data, "time_ms"),
             content_type |-> Opt(GetOr(response_data, "headers", EmptyDict),
                                  "content-type")]
    IN  IF "error" \in DOMAIN response_data
        THEN DictUpdate(cleaned, [error |-> response_data["error"]])
        ELSE cleaned

\* an add_to_history that never truncates
add_to_history_unbounded(h, t, request_data, response_data) ==
    <<[id        |-> Len(h) + 1,
       timestamp |-> t,
       request   |-> _clean_request_data(request_data),
       response  |-> _clean_response_data(response_data)]>> \o h

\* the history list after add_to_history(request_data, response_data) at time t
add_to_history(h, t, request_data, response_data) ==
    LET entry == [id        |-> Len(h) + 1,
                  timestamp |-> t,
                  request   |-> _clean_request_data(request_data),
                  response  |-> _clean_response_data(response_data)]
        inserted == <<entry>> \o h
    IN  IF Len(inserted) > MAX_HISTORY THEN Take(inserted, MAX_HISTORY) ELSE inserted

\* the template mapping after save_request(name, request_data) at time t
save_request(sr, t, name, request_data) ==
    DictUpdate(sr, name :> DictUpdate(request_data, [saved_at |-> t, id |-> name]))

\* get_request(name): None or the template
get_request(sr, name) == Opt(sr, name)

\* `if x:` on the result of get_request: None and the empty dict are falsy
TemplateTruthy(x) == x # None /\ x # {EmptyDict}

\* a delete_request that empties the store
delete_request_all(sr, name) == IF name \in DOMAIN sr THEN EmptyDict ELSE sr

delete_request(sr, name) == IF name \in DOMAIN sr THEN DictRemove(sr, name) ELSE sr

update_request(sr, t, name, request_data) ==
    IF name \in DOMAIN sr
    THEN DictUpdate(sr, name :> DictUpdate(sr[name],
                                  DictUpdate(request_data, [updated_at |-> t])))
    ELSE sr

\* sorted(items, key=..., reverse=True) on a list of [k |-> key, v |-> item]:
\* descending by key, items of equal key in their original order
RECURSIVE InsertDesc(_, _)
InsertDesc(sorted, x) ==
    IF sorted = <<>> THEN <<x>>
    ELSE IF Head(sorted).k >= x.k
         THEN <<Head(sorted)>> \o InsertDesc(Tail(sorted), x)
         ELSE <<x>> \o sorted

RECURSIVE SortedDesc(_)
SortedDesc(s) ==
    IF s = <<>> THEN <<>>
    ELSE InsertDesc(SortedDesc(SubSeq(s, 1, Len(s) - 1)), s[Len(s)])

Values(pairs) == [i \in 1..Len(pairs) |-> pairs[i].v]

\* the keys of a counting dict in insertion order: each value of s once, in the
\* order of its first occurrence
RECURSIVE FirstSeen(_)
FirstSeen(s) ==
    IF s = <<>> THEN <<>>
    ELSE LET front == FirstSeen(SubSeq(s, 1, Len(s) - 1))
         IN  IF \E i \in 1..Len(front) : front[i] = s[Len(s)]
             THEN front ELSE Append(front, s[Len(s)])

Count(s, x) == Cardinality({i \in 1..Len(s) : s[i] = x})

\* dict(sorted(counts.items(), key=lambda x: x[1], reverse=True)[:5]) as the list
\* of its items
TopFive(s) ==
    LET keys == FirstSeen(s)
        items == [i \in 1..Len(keys) |->
                     [k |-> Count(s, keys[i]), v |-> <<keys[i], Count(s, keys[i])>>]]
    IN  Take(Values(SortedDesc(items)), 5)

\* entry['response'].get('status_code', 0)
StatusOf(entry) == GetOr(entry.response, "status_code", {0})

\* round(x, 1) of successful / len * 100, in tenths of a percent
SuccessRate(successful, total) == (2000 * successful + total) \div (2 * total)

\* get_stats() on a log that is not empty
history_stats(h, sr) ==
    IF \E i \in 1..Len(h) : StatusOf(h[i]) = None
    THEN [raised |-> "TypeError"]
    ELSE LET successful ==
                 Cardinality({i \in 1..Len(h) : \E c \in StatusOf(h[i]) : c < 400})
             methods == [i \in 1..Len(h) |-> GetOr(h[i].request, "method", {"Unknown"})]
             netlocs == [i \in 1..Len(h) |->
                            LET url == GetOr(h[i].request, "url", None)
                            IN  IF url = None THEN <<>>
                                ELSE UrlNetloc(CHOOSE u \in url : TRUE)]
             domains == SelectSeq(netlocs, LAMBDA d : d # <<>>)
         IN  [raised |-> "", total_requests |-> Len(h),
              saved_requests |-> Cardinality(DOMAIN sr), history_entries |-> Len(h),
              success_rate |-> SuccessRate(successful, Len(h)),
              common_methods |-> TopFive(methods),
              common_domains |-> TopFive(domains)]

\* a get_stats without the early return for an empty log
get_stats_unguarded(h, sr) ==
    IF h = <<>> THEN [raised |-> "ZeroDivisionError"] ELSE history_stats(h, sr)

\* get_stats(): the dict returned, or the exception raised
get_stats(h, sr) ==
    IF h = <<>>
    THEN [raised |-> "", total_requests |-> 0,
          saved_requests |-> Cardinality(DOMAIN sr), history_entries |-> 0,
          success_rate |-> 0, common_methods |-> <<>>, common_domains |-> <<>>]
    ELSE history_stats(h, sr)

\* export_data(): the snapshot, its history as a list of JSON values
export_data(h, sr, t) ==
    [saved_requests |-> sr,
     history |-> [i \in 1..Len(h) |-> [json |-> "dict", v |-> h[i]]],
     exported_at |-> t]

\* a new_entries that keeps every item of the snapshot
new_entries_keep_all(h, items) == items

\* the items of data['history'] whose id is not an id of the current log
new_entries(h, items) ==
    LET existing_ids == {Opt(h[i], "id") : i \in 1..Len(h)}
    IN  SelectSeq(items, LAMBDA e : Opt(e, "id") \notin existing_ids)

\* a merge that appends the new entries without sorting
merged_history_unsorted(h, new) == Take(Concat(h, new), MAX_HISTORY)

\* sorted(self.history + new_entries, key=lambda x: x.get('timestamp', ''),
\* reverse=True)[:self.max_history]; a missing timestamp sorts below every other
merged_history(h, new) ==
    LET merged == Concat(h, new)
        keyed == [i \in 1..Len(merged) |->
                     [k |-> GetOr(merged[i], "timestamp", -1), v |-> merged[i]]]
    IN  Take(Values(SortedDesc(keyed)), MAX_HISTORY)

\* an import_data in which an existing template wins over the snapshot's
import_data_keep_existing(sr, h, data) ==
    LET sr1 == IF "saved_requests" \in DOMAIN data
               THEN DictUpdate(data["saved_requests"], sr) ELSE sr
    IN  IF "history" \notin DOMAIN data
        THEN [saved_requests |-> sr1, history |-> h, ret |-> TRUE]
        ELSE IF \E i \in 1..Len(data["history"]) : data["history"][i].json # "dict"
        THEN [saved_requests |-> sr1, history |-> h, ret |-> FALSE]
        ELSE [saved_requests |-> sr1,
              history |-> merged_history(h, new_entries(h, Values(data["history"]))),
              ret |-> TRUE]

\* import_data(data): the stores afterwards and the value returned.  An item of
\* data['history'] that is not a dict makes entry.get raise.
import_data(sr, h, data) ==
    LET sr1 == IF "saved_requests" \in DOMAIN data
               THEN DictUpdate(sr, data["saved_requests"]) ELSE sr
    IN  IF "history" \notin DOMAIN data
        THEN [saved_requests |-> sr1, history |-> h, ret |-> TRUE]
        ELSE IF \E i \in 1..Len(data["history"]) : data["history"][i].json # "dict"
        THEN [saved_requests |-> sr1, history |-> h, ret |-> FALSE]
        ELSE [saved_requests |-> sr1,
              history |-> merged_history(h, new_entries(h, Values(data["history"]))),
              ret |-> TRUE]

(* Persistence.  A file is <<"absent">>, <<"json", data>> when json.dump wrote
   data to it, or <<"partial">> when open(path, 'w') truncated it and json.dump
   did not finish.  A write ends "ok", "open_failed" (open raised, the file is
   as it was) or "write_failed" (json.dump raised). *)

Absent == <<"absent">>

WriteOutcomes == {"ok", "open_failed", "write_failed"}

\* with open(path, 'w') as f: json.dump(data, f, indent=2)
written(old, data, w) ==
    CASE w = "ok" -> <<"json", data>>
      [] w = "open_failed" -> old
      [] OTHER -> <<"partial">>

\* a _save_requests_to_file without its except clause
_save_requests_to_file_raises(f, sr, w) ==
    [files |-> [f EXCEPT !.requests = written(f.requests, sr, w)], raised |-> w # "ok"]

\* _save_requests_to_file(): every Exception of the write is caught and printed
_save_requests_to_file(f, sr, w) ==
    [files |-> [f EXCEPT !.requests = written(f.requests, sr, w)], raised |-> FALSE]

\* _save_history_to_file(): every Exception of the write is caught and printed
_save_history_to_file(f, h, w) ==
    [files |-> [f EXCEPT !.history = written(f.history, h, w)], raised |-> FALSE]

\* the files a call writes when persistence is on: save_request, and
\* update_request and delete_request of a stored name, write the templates;
\* add_to_history and clear_history write the log; a successful import_data
\* writes both
writes_of(name, ret) ==
    CASE name \in {"send_request", "load_request"}
         /\ ret \in {"completed", "request_failed"} -> {"history"}
      [] name = "save_request" /\ ret = "saved" -> {"requests"}
      [] name = "update_request" /\ ret = "updated" -> {"requests"}
      [] name = "delete_request" /\ ret = "deleted" -> {"requests"}
      [] name = "clear_history" -> {"history"}
      [] name = "import_data" /\ ret = "True" -> {"requests", "history"}
      [] OTHER -> {}

\* the trailing `if config.SAVE_REQUESTS_TO_FILE: self._save_..._to_file()` of a
\* mutator, after the stores became sr and h; `failed` names the files whose
\* write did not end "ok"
persist(enabled, f, writes, sr, h, w) ==
    LET r1 == IF enabled /\ "requests" \in writes
              THEN _save_requests_to_file(f, sr, w["requests"])
              ELSE [files |-> f, raised |-> FALSE]
        r2 == IF enabled /\ "history" \in writes /\ ~r1.raised
              THEN _save_history_to_file(r1.files, h, w["history"])
              ELSE [files |-> r1.files, raised |-> FALSE]
    IN  [files |-> r2.files, raised |-> r1.raised \/ r2.raised,
         failed |-> {k \in writes : enabled /\ w[k] # "ok"}]

\* what the caller gets: an exception that leaves a mutator replaces its
\* result; import_data would catch it and return False
Returned(op, raised, ret) ==
    IF ~raised THEN ret ELSE IF op = "import_data" THEN "False" ELSE "OSError"

-----------------------------------------------------------------------------
(* tools.py *)

\* Config.DEFAULT_HEADERS
DEFAULT_HEADERS ==
    ("User-Agent" :> "api-tester/1.0.0") @@ ("Accept" :> "application/json, text/plain, */*")

\* str.upper() on the method spellings in use
Upper(m) ==
    CASE m = "get" -> "GET"
      [] m = "post" -> "POST"
      [] OTHER -> m

\* storage.py: get_history(limit)
get_history(h, limit) == Take(h, limit)

\* a filter by URL that compares the URLs as they are spelled
get_history_by_url_exact(h, url, limit) ==
    Take(SelectSeq(h, LAMBDA entry : GetOr(entry.request, "url", {<<>>}) = {url}), limit)

\* storage.py: get_history_by_url(url, limit)
get_history_by_url(h, url, limit) ==
    Take(SelectSeq(h, LAMBDA entry :
                          \E u \in GetOr(entry.request, "url", {<<>>}) :
                              Lower(u) = Lower(url)),
         limit)

\* storage.py: get_history_by_method(method, limit)
get_history_by_method(h, method, limit) ==
    Take(SelectSeq(h, LAMBDA entry :
                          \E m \in GetOr(entry.request, "method", {""}) :
                              Upper(m) = Upper(method)),
         limit)

\* a clear_history that reports one entry fewer than it removed
clear_history_miscount(h) ==
    [history |-> <<>>, count |-> IF h = <<>> THEN 0 ELSE Len(h) - 1]

\* storage.py: clear_history(): the log afterwards and the count returned
clear_history(h) == [history |-> <<>>, count |-> Len(h)]

\* storage.py: list_saved_requests(), as the set of its names
list_saved_requests(sr) == DOMAIN sr

\* str.lower() on the header names in use
LowerName(k) ==
    CASE k = "Content-Type" -> "content-type"
      [] k = "Content-Length" -> "content-length"
      [] k = "User-Agent" -> "user-agent"
      [] k = "Accept" -> "accept"
      [] OTHER -> k

\* json.loads(body) succeeds
IsJson(body) == body \in {{"{}"}, {"[1]"}}

\* CaseInsensitiveDict.get(name), name in lower case
HeaderGet(headers, name) ==
    LET ks == {k \in DOMAIN headers : LowerName(k) = name}
    IN  IF ks = {} THEN None ELSE {headers[CHOOSE k \in ks : TRUE]}

\* int(s) on the Content-Length values in use: the number, or None when int
\* raises ValueError
int(s) ==
    CASE s = "10485760" -> {10485760}
      [] s = "10485761" -> {10485761}
      [] OTHER -> None

\* a size test that also rejects a declared length equal to the maximum
too_large_inclusive(content_length) ==
    /\ Truthy(content_length)
    /\ \E s \in content_length : \E n \in int(s) : n >= MAX_RESPONSE_SIZE

\* content_length and int(content_length) > config.MAX_RESPONSE_SIZE, for a
\* content_length that int accepts
too_large(content_length) ==
    /\ Truthy(content_length)
    /\ \E s \in content_length : \E n \in int(s) : n > MAX_RESPONSE_SIZE

prepare_headers(headers) ==
    IF headers # EmptyDict THEN DictUpdate(DEFAULT_HEADERS, headers) ELSE DEFAULT_HEADERS

format_response(response) ==
    [status_code |-> {response.status_code},
     status_text |-> {response.reason},
     headers     |-> response.headers,
     content     |-> response.content,
     size        |-> {response.size},
     time_ms     |-> {response.elapsed_ms}]

\* the Content-Type header is injected: the body is JSON and the merged headers
\* name no content type
inject(args) ==
    /\ Truthy(Get(args, "body"))
    /\ IsJson(Get(args, "body"))
    /\ "content-type" \notin
           {LowerName(k) : k \in DOMAIN prepare_headers(GetOr(args, "headers", EmptyDict))}

\* the dict `headers` of send_request_tool when the request is issued
final_headers(args) ==
    IF inject(args)
    THEN DictUpdate(prepare_headers(GetOr(args, "headers", EmptyDict)),
                    "Content-Type" :> "application/json")
    ELSE prepare_headers(GetOr(args, "headers", EmptyDict))

\* send_request_tool(args) from "Prepare request data" on, when requests.request
\* ends as `outcome`: the history afterwards, what is reported, and whether
\* requests.request was called
issue_request(h, t, args, outcome) ==
    LET method   == Upper(args["method"])
        url      == args["url"]
        body     == Get(args, "body")
        params   == GetOr(args, "params", EmptyDict)
        timeout  == GetOr(args, "timeout", DEFAULT_TIMEOUT)
        \* request_data holds the headers dict itself, so the injected header
        \* shows in it
        headers  == final_headers(args)
        request_data0 == [method |-> method, url |-> url, headers |-> headers,
                          params |-> params, timeout |-> timeout]
        request_data == IF Truthy(body)
                        THEN DictUpdate(request_data0, [body |-> body])
                        ELSE request_data0
    IN  IF outcome.kind = "exception"
        THEN [history |-> add_to_history(h, t, request_data,
                              [error |-> outcome.error, status_code |-> None,
                               time_ms |-> None]),
              ret |-> "request_failed", net |-> TRUE]
        ELSE
        LET content_length == HeaderGet(outcome.headers, "content-length")
        IN  IF Truthy(content_length) /\ \E s \in content_length : int(s) = None
            THEN [history |-> h, ret |-> "ValueError", net |-> TRUE]
            ELSE IF too_large(content_length)
            THEN [history |-> h, ret |-> "too_large", net |-> TRUE]
            ELSE [history |-> add_to_history(h, t, request_data,
                                  DictUpdate(format_response(outcome),
                                             [time_ms |-> {outcome.elapsed_ms}])),
                  ret |-> "completed", net |-> TRUE]

\* what send_request_tool leaves: r of issue_request, and the dict `headers`
\* that prepare_headers returned as the call leaves it
sent(r, headers) ==
    [history |-> r.history, ret |-> r.ret, net |-> r.net, headers |-> headers]

\* a send_request_tool that validates the URL only after the request was issued
send_request_tool_validate_late(h, t, allowed, blocked, args, outcome) ==
    LET r == sent(issue_request(h, t, args, outcome), final_headers(args))
    IN  IF ~validate_url(allowed, blocked, args["url"])
        THEN [history |-> r.history, ret |-> "invalid_url", net |-> r.net,
              headers |-> r.headers]
        ELSE r

\* send_request_tool(args): the URL is validated first
send_request_tool(h, t, allowed, blocked, args, outcome) ==
    IF ~validate_url(allowed, blocked, args["url"])
    THEN [history |-> h, ret |-> "invalid_url", net |-> FALSE,
          headers |-> prepare_headers(GetOr(args, "headers", EmptyDict))]
    ELSE sent(issue_request(h, t, args, outcome), final_headers(args))

\* a save_request_tool that does not look for an existing template
save_request_tool_unchecked(sr, t, name, args) ==
    [saved_requests |->
         save_request(sr, t, name,
                      [method      |-> args["method"],
                       url         |-> args["url"],
                       headers     |-> GetOr(args, "headers", EmptyDict),
                       body        |-> Get(args, "body"),
                       params      |-> GetOr(args, "params", EmptyDict),
                       description |-> GetOr(args, "description", "")]),
     ret |-> "saved"]

save_request_tool(sr, t, name, args) ==
    IF TemplateTruthy(get_request(sr, name))
    THEN [saved_requests |-> sr, ret |-> "already_exists"]
    ELSE LET request_config ==
                 [method      |-> args["method"],
                  url         |-> args["url"],
                  headers     |-> GetOr(args, "headers", EmptyDict),
                  body        |-> Get(args, "body"),
                  params      |-> GetOr(args, "params", EmptyDict),
                  description |-> GetOr(args, "description", "")]
         IN  [saved_requests |-> save_request(sr, t, name, request_config),
              ret |-> "saved"]

MetadataFields == {"saved_at", "updated_at", "description", "id"}

\* a merge in which the stored field wins over the override
request_args_stored_wins(saved_request, overrides) ==
    LET merged == DictUpdate(overrides, saved_request)
    IN  [k \in (DOMAIN merged) \ MetadataFields |-> merged[k]]

\* {**saved_request, **overrides} with the metadata fields popped
request_args(saved_request, overrides) ==
    LET merged == DictUpdate(saved_request, overrides)
    IN  [k \in (DOMAIN merged) \ MetadataFields |-> merged[k]]

(* Which dicts a call writes to.  Python dicts are shared by reference: the
   template that get_request returns is the stored dict, and the headers and
   params in {**saved_request, **overrides} are the stored template's own
   dicts unless an override replaces them.  A write to a shared dict is a
   write to the store. *)

\* a merge that writes the overrides into the dict get_request returned
request_args_is_saved_request_yes == TRUE

\* request_args is the dict get_request returned: no, {**saved_request,
\* **overrides} builds a new dict, so the four pops write to the new dict
request_args_is_saved_request == FALSE

\* a prepare_headers that merges the defaults into the dict it was given
final_headers_is_argument_yes == TRUE

\* the dict prepare_headers returns is the dict it was given: no, it is the copy
\* that config.get_default_headers() made, so update() and the injection of
\* Content-Type write to the copy
final_headers_is_argument == FALSE

\* the stored template after load_request_tool ran on it: `dispatched` tells
\* whether send_request_tool was called, `headers` is the dict prepare_headers
\* returned as that call left it
template_after_load(template, overrides, dispatched, headers) ==
    LET popped == IF request_args_is_saved_request
                  THEN request_args(template, overrides) ELSE template
    IN  IF /\ final_headers_is_argument
           /\ dispatched
           /\ "headers" \in DOMAIN template
           /\ "headers" \notin DOMAIN overrides
        THEN DictUpdate(popped, [headers |-> headers])
        ELSE popped

\* what load_request_tool leaves when send_request_tool, called with args, left r
loaded(sr, name, overrides, args, r) ==
    [saved_requests |->
         DictUpdate(sr, name :> template_after_load(sr[name], overrides, TRUE, r.headers)),
     history |-> r.history, ret |-> r.ret, net |-> r.net, args |-> args]

\* load_request_tool from the pops on: args is request_args
load_merged(sr, h, t, allowed, blocked, name, overrides, outcome, args) ==
    IF ~({"method", "url"} \subseteq DOMAIN args)
    THEN [saved_requests |->
              DictUpdate(sr, name :> template_after_load(sr[name], overrides, FALSE,
                                                         EmptyDict)),
          history |-> h, ret |-> "KeyError", net |-> FALSE, args |-> args]
    ELSE loaded(sr, name, overrides, args,
                send_request_tool(h, t, allowed, blocked, args, outcome))

\* load_request_tool(args): what send_request_tool did, the arguments it was
\* given, and the template store afterwards
load_request_tool(sr, h, t, allowed, blocked, name, overrides, outcome) ==
    IF ~TemplateTruthy(get_request(sr, name))
    THEN [saved_requests |-> sr, history |-> h, ret |-> "not_found", net |-> FALSE,
          args |-> EmptyDict]
    ELSE load_merged(sr, h, t, allowed, blocked, name, overrides, outcome,
                     request_args(sr[name], overrides))

UpdateFields == {"method", "url", "headers", "body", "params", "description"}

update_request_tool(sr, t, name, args) ==
    IF ~TemplateTruthy(get_request(sr, name))
    THEN [saved_requests |-> sr, ret |-> "not_found"]
    ELSE LET update_data == [k \in (DOMAIN args) \cap UpdateFields |-> args[k]]
         IN  [saved_requests |-> update_request(sr, t, name, update_data),
              ret |-> "updated"]

delete_request_tool(sr, name) ==
    IF name \in DOMAIN sr
    THEN [saved_requests |-> delete_request(sr, name), ret |-> "deleted"]
    ELSE [saved_requests |-> sr, ret |-> "not_found"]

(* server.py: handle_call_tool.  No handler awaits anything but another
   handler, so the event loop runs each call from start to end before the
   next one. *)

\* handle_call_tool(name, arguments) when a request, if one is issued, ends as
\* `outcome`: the stores afterwards and what is reported
\* the stores and the report after a tool that reaches the log only
with_templates(sr, r) ==
    [saved_requests |-> sr, history |-> r.history, ret |-> r.ret, net |-> r.net]

\* the stores and the report after a tool that reaches the templates only
with_history(h, r) ==
    [saved_requests |-> r.saved_requests, history |-> h, ret |-> r.ret, net |-> FALSE]

handle_call_tool(sr, h, t, allowed, blocked, name, arguments, outcome) ==
    CASE name = "send_request" ->
            with_templates(sr, send_request_tool(h, t, allowed, blocked, arguments,
                                                 outcome))
      [] name = "save_request" ->
            with_history(h, save_request_tool(sr, t, arguments["name"], arguments))
      [] name = "load_request" ->
            load_request_tool(sr, h, t, allowed, blocked, arguments["name"],
                              GetOr(arguments, "override_params", EmptyDict), outcome)
      [] name = "update_request" ->
            with_history(h, update_request_tool(sr, t, arguments["name"], arguments))
      [] name = "delete_request" ->
            with_history(h, delete_request_tool(sr, arguments["name"]))
      [] OTHER ->
            [saved_requests |-> sr, history |-> h, ret |-> "ValueError", net |-> FALSE]

-----------------------------------------------------------------------------
(* The calls the environment makes: arguments and network outcomes *)

Url(userinfo, host) ==
    UrlString([scheme |-> <<"h">>, slashes |-> TRUE, userinfo |-> userinfo,
               host |-> host, port |-> <<>>, path |-> <<"/">>])

UrlA == Url(<<>>, <<"a">>)
UrlB == Url(<<>>, <<"b">>)
UrlNoScheme ==
    UrlString([scheme |-> <<>>, slashes |-> TRUE, userinfo |-> <<>>,
               host |-> <<"a">>, port |-> <<>>, path |-> <<"/">>])

\* arguments of send_request: one to host a, one to host b, one malformed
SendArgs ==
    { [method |-> "post", url |-> UrlA, headers |-> ("user-agent" :> "me"),
       body |-> {"{}"}, params |-> ("q" :> "1"), timeout |-> 5],
      [method |-> "get", url |-> UrlB],
      [method |-> "get", url |-> UrlNoScheme] }

\* what requests.request does: a response (its Content-Length, when the server
\* sent one, is the header's text), or a RequestException
Outcomes ==
    { [kind |-> "response", status_code |-> 200, reason |-> "OK",
       headers |-> ("content-type" :> "application/json"), content |-> "{}",
       size |-> 120, elapsed_ms |-> 45],
      [kind |-> "response", status_code |-> 404, reason |-> "Not Found",
       headers |-> ("Content-Type" :> "text/plain")
                   @@ ("Content-Length" :> "10485760"),
       content |-> "no", size |-> MAX_RESPONSE_SIZE, elapsed_ms |-> 45],
      [kind |-> "response", status_code |-> 200, reason |-> "OK",
       headers |-> ("Content-Length" :> "10485761"), content |-> "big",
       size |-> MAX_RESPONSE_SIZE + 1, elapsed_ms |-> 45],
      [kind |-> "response", status_code |-> 200, reason |-> "OK",
       headers |-> ("content-length" :> "abc"), content |-> "ok",
       size |-> 2, elapsed_ms |-> 45],
      [kind |-> "exception", error |-> "Connection refused"] }

\* a history entry of a snapshot, shaped as add_to_history writes it
SnapEntry(id, ts) ==
    [json |-> "dict",
     v |-> [id |-> id, timestamp |-> ts,
            request |-> [method |-> {"GET"}, url |-> {UrlA}, headers |-> DEFAULT_HEADERS,
                         params |-> EmptyDict, has_body |-> FALSE,
                         timeout |-> {DEFAULT_TIMEOUT}],
            response |-> [status_code |-> {200}, status_text |-> {"OK"}, size |-> {120},
                          time_ms |-> {45}, content_type |-> None]]]

\* a history item of a snapshot that is not a dict
BadRecord == [json |-> "str", v |-> "bad"]

SnapTemplate ==
    [method |-> "GET", url |-> UrlA, headers |-> EmptyDict, body |-> None,
     params |-> EmptyDict, description |-> "imported", saved_at |-> 0, id |-> "x"]

\* arguments of import_data that carry history
LogSnapshots ==
    { [saved_requests |-> ("x" :> SnapTemplate), history |-> <<BadRecord>>],
      [history |-> <<SnapEntry(1, 0)>>],
      [history |-> <<SnapEntry(1, 1), SnapEntry(2 * MAX_HISTORY + 2, 0)>>],
      [history |-> [i \in 1..(MAX_HISTORY + 1) |-> SnapEntry(MAX_HISTORY + i, i)]] }

\* the calls on the template store, on one name
StoreNames == {"x"}

StoreArgs ==
    { [method |-> "get", url |-> UrlA],
      [method |-> "POST", url |-> UrlB, headers |-> ("user-agent" :> "me"),
       body |-> {"{}"}, params |-> ("q" :> "1"), timeout |-> 5] }

StoreOverrides == { EmptyDict, [url |-> UrlNoScheme] }

StoreUpdateArgs == { [method |-> "post"] }

StoreOutcomes == {o \in Outcomes : o.kind = "exception"}

StoreSnapshots ==
    { [saved_requests |-> ("x" :> SnapTemplate)],
      [saved_requests |-> ("x" :> EmptyDict)],
      [saved_requests |-> ("x" :> SnapTemplate), history |-> <<BadRecord>>] }

\* the calls on the template store, on two names
TemplateNames == {"x", "y"}

TemplateArgs == { [method |-> "get", url |-> UrlA, description |-> "mine"] }

TemplateSnapshots ==
    { [saved_requests |-> ("x" :> SnapTemplate)],
      [saved_requests |-> ("x" :> SnapTemplate) @@ ("y" :> [SnapTemplate EXCEPT !.id = "y"]),
       history |-> <<SnapEntry(1, 0)>>] }

\* load-and-execute of templates with and without headers and JSON body
LoadArgs ==
    { [method |-> "post", url |-> UrlA, headers |-> ("accept" :> "text/plain"),
       body |-> {"{}"}, params |-> ("q" :> "1")],
      [method |-> "get", url |-> UrlA] }

LoadOverrides ==
    { EmptyDict, [headers |-> ("accept" :> "x/y")], [url |-> UrlNoScheme] }

LoadOutcomes ==
    {o \in Outcomes : o.kind = "exception" \/ o.content = "{}"}

\* the calls made with persistence on
PersistArgs == { [method |-> "get", url |-> UrlA] }

PersistOutcomes == {o \in Outcomes : o.kind = "response" /\ o.content = "{}"}

PersistSnapshots ==
    { [saved_requests |-> ("y" :> SnapTemplate),
       history |-> <<SnapEntry(2 * MAX_HISTORY + 2, 0)>>] }

\* the clients of the server
Clients == {"c1", "c2"}

\* a client without a call in flight
Idle == [state |-> "idle"]

\* the tool calls two clients issue at the same time
ConcurrentCalls ==
    { [name |-> "save_request",
       arguments |-> [name |-> "x", method |-> "get", url |-> UrlA]],
      [name |-> "save_request",
       arguments |-> [name |-> "x", method |-> "post", url |-> UrlB]],
      [name |-> "send_request", arguments |-> [method |-> "get", url |-> UrlA]],
      [name |-> "send_request", arguments |-> [method |-> "post", url |-> UrlA]],
      [name |-> "update_request", arguments |-> [name |-> "x", method |-> "post"]],
      [name |-> "delete_request", arguments |-> [name |-> "x"]] }

\* the dispatches and queries on the history log: three URLs of host a, two of
\* them equal up to case
UrlAUpper == Url(<<>>, <<"A">>)

UrlAPath ==
    UrlString([scheme |-> <<"h">>, slashes |-> TRUE, userinfo |-> <<>>,
               host |-> <<"a">>, port |-> <<>>, path |-> <<"/", "b">>])

QuerySendArgs ==
    { [method |-> "get", url |-> UrlA],
      [method |-> "post", url |-> UrlAUpper],
      [method |-> "get", url |-> UrlAPath] }

QueryOutcomes ==
    {o \in Outcomes : /\ o.kind = "response"
                      /\ o.status_code = 200
                      /\ DOMAIN o.headers = {"content-type"}}

QueryUrls == {UrlA, UrlAUpper, UrlAPath}

QueryMethods == {"get", "POST"}

QueryLimits == 0..MAX_HISTORY

\* the URLs handed to the domain policy, by components
Probes ==
    [scheme : {<<>>, <<"h">>}, slashes : BOOLEAN, userinfo : {<<>>, <<"a">>},
     host : {<<"a">>, <<"b">>, <<"A", "b">>}, port : {<<>>, <<"8">>},
     path : {<<"/">>}]

\* the entries of ALLOWED_DOMAINS and BLOCKED_DOMAINS, as split(",") leaves them
DomainEntries == {<<>>, <<" ">>, <<"a">>, <<" ", "B", " ">>, <<"8">>}

DomainLists ==
    UNION {[1..n -> DomainEntries] : n \in 0..MaxListLen}

-----------------------------------------------------------------------------
(* The state machine *)

NoProbe == [scheme |-> <<>>, slashes |-> FALSE, userinfo |-> <<>>, host |-> <<>>,
            port |-> <<>>, path |-> <<>>]

Started == [op |-> "start", ret |-> "", net |-> FALSE]

\* SimpleStorage.__init__: with SAVE_REQUESTS_TO_FILE off nothing is loaded, with
\* it on _load_from_files finds neither file
EmptyStore ==
    /\ saved_requests = EmptyDict
    /\ history = <<>>
    /\ files = [requests |-> Absent, history |-> Absent]
    /\ now = 0
    /\ probe = NoProbe
    /\ calls = [c \in Clients |-> Idle]
    /\ last = Started

\* the configurations of the store's runs: host a allowed, or host b blocked
Init ==
    /\ SAVE_REQUESTS_TO_FILE = FALSE
    /\ \/ ALLOWED_DOMAINS = << <<"a">> >> /\ BLOCKED_DOMAINS = <<>>
       \/ ALLOWED_DOMAINS = <<>> /\ BLOCKED_DOMAINS = << <<"b">> >>
    /\ EmptyStore

InitPolicy ==
    /\ SAVE_REQUESTS_TO_FILE = FALSE
    /\ ALLOWED_DOMAINS \in DomainLists
    /\ BLOCKED_DOMAINS \in DomainLists
    /\ EmptyStore

\* time passes
\* persistence on, no domain policy
InitPersist ==
    /\ SAVE_REQUESTS_TO_FILE = TRUE
    /\ ALLOWED_DOMAINS = <<>>
    /\ BLOCKED_DOMAINS = <<>>
    /\ EmptyStore

\* how the writes of a call can end, per file it writes; none is attempted with
\* persistence off
Attempts(writes) ==
    [writes -> IF SAVE_REQUESTS_TO_FILE THEN WriteOutcomes ELSE {"ok"}]

Tick ==
    /\ now < MaxClock
    /\ now' = now + 1
    /\ UNCHANGED <<SAVE_REQUESTS_TO_FILE, ALLOWED_DOMAINS, BLOCKED_DOMAINS, calls,
                   saved_requests, history, files, probe, last>>

\* what a call keeps in `last` besides its name and report
Extra(r) == [k \in DOMAIN r \ {"saved_requests", "history", "ret", "net"} |-> r[k]]

\* the call op left the stores and the report of r, and p of its writes
Stored(op, r, p) ==
    /\ saved_requests' = r.saved_requests
    /\ history' = r.history
    /\ files' = p.files
    /\ last' = Extra(r) @@ [op |-> op, ret |-> Returned(op, p.raised, r.ret),
                            net |-> r.net, failed |-> p.failed]
    /\ UNCHANGED <<SAVE_REQUESTS_TO_FILE, ALLOWED_DOMAINS, BLOCKED_DOMAINS, now, probe>>

\* the end of a mutator: the stores are assigned, then the files are written
Done(op, r) ==
    \E w \in Attempts(writes_of(op, r.ret)) :
        Stored(op, r, persist(SAVE_REQUESTS_TO_FILE, files, writes_of(op, r.ret),
                              r.saved_requests, r.history, w))

SendRequest(args, outcome) ==
    /\ Done("send_request",
            with_templates(saved_requests,
                           send_request_tool(history, now, ALLOWED_DOMAINS,
                                             BLOCKED_DOMAINS, args, outcome)))
    /\ UNCHANGED calls

LoadRequest(name, overrides, outcome) ==
    /\ Done("load_request",
            load_request_tool(saved_requests, history, now, ALLOWED_DOMAINS,
                              BLOCKED_DOMAINS, name, overrides, outcome))
    /\ UNCHANGED calls

SaveRequest(name, args) ==
    /\ Done("save_request",
            with_history(history, save_request_tool(saved_requests, now, name, args)))
    /\ UNCHANGED calls

UpdateRequest(name, args) ==
    /\ Done("update_request",
            with_history(history, update_request_tool(saved_requests, now, name, args)))
    /\ UNCHANGED calls

DeleteRequest(name) ==
    /\ Done("delete_request",
            with_history(history, delete_request_tool(saved_requests, name)))
    /\ UNCHANGED calls

\* the stores and the report after clear_history()
cleared(sr, r) ==
    [saved_requests |-> sr, history |-> r.history, ret |-> "cleared", net |-> FALSE,
     count |-> r.count]

\* clear_history()
ClearHistory ==
    /\ Done("clear_history", cleared(saved_requests, clear_history(history)))
    /\ UNCHANGED calls

GetStats ==
    LET r == get_stats(history, saved_requests)
    IN  /\ last' = [op |-> "get_stats",
                    ret |-> IF r.raised = "" THEN "stats" ELSE r.raised,
                    net |-> FALSE, stats |-> r]
        /\ UNCHANGED <<SAVE_REQUESTS_TO_FILE, ALLOWED_DOMAINS, BLOCKED_DOMAINS, calls,
                       saved_requests, history, files, now, probe>>

\* the stores and the report after import_data(data)
imported(r) ==
    [saved_requests |-> r.saved_requests, history |-> r.history,
     ret |-> IF r.ret THEN "True" ELSE "False", net |-> FALSE]

ImportData(data) ==
    /\ Done("import_data", imported(import_data(saved_requests, history, data)))
    /\ UNCHANGED calls

\* Config.is_url_allowed(url) on its own
IsUrlAllowed(u) ==
    /\ probe' = u
    /\ last' = [op |-> "is_url_allowed",
                ret |-> IF is_url_allowed(ALLOWED_DOMAINS, BLOCKED_DOMAINS, UrlString(u))
                        THEN "True" ELSE "False",
                net |-> FALSE]
    /\ UNCHANGED <<SAVE_REQUESTS_TO_FILE, ALLOWED_DOMAINS, BLOCKED_DOMAINS, calls,
                   saved_requests, history, files, now>>

\* validate_url(url) on its own
ValidateUrl(u) ==
    /\ probe' = u
    /\ last' = [op |-> "validate_url",
                ret |-> IF validate_url(ALLOWED_DOMAINS, BLOCKED_DOMAINS, UrlString(u))
                        THEN "True" ELSE "False",
                net |-> FALSE]
    /\ UNCHANGED <<SAVE_REQUESTS_TO_FILE, ALLOWED_DOMAINS, BLOCKED_DOMAINS, calls,
                   saved_requests, history, files, now>>

\* import_data(export_data()) on the one store
RoundTrip == ImportData(export_data(history, saved_requests, now))

\* the reads of the two stores: what they return is kept in `last`
Frame ==
    UNCHANGED <<SAVE_REQUESTS_TO_FILE, ALLOWED_DOMAINS, BLOCKED_DOMAINS, calls,
                saved_requests, history, files, now, probe>>

GetHistory(limit) ==
    /\ last' = [op |-> "get_history", ret |-> "list", net |-> FALSE, limit |-> limit,
                result |-> get_history(history, limit)]
    /\ Frame

GetHistoryByUrl(url, limit) ==
    /\ last' = [op |-> "get_history_by_url", ret |-> "list", net |-> FALSE,
                arg |-> url, limit |-> limit,
                result |-> get_history_by_url(history, url, limit)]
    /\ Frame

GetHistoryByMethod(method, limit) ==
    /\ last' = [op |-> "get_history_by_method", ret |-> "list", net |-> FALSE,
                arg |-> method, limit |-> limit,
                result |-> get_history_by_method(history, method, limit)]
    /\ Frame

ListSavedRequests ==
    /\ last' = [op |-> "list_saved_requests", ret |-> "list", net |-> FALSE,
                result |-> list_saved_requests(saved_requests)]
    /\ Frame

GetRequest(name) ==
    /\ last' = [op |-> "get_request", ret |-> "template", net |-> FALSE,
                result |-> get_request(saved_requests, name)]
    /\ Frame

\* a client sends a tools/call message; `seen` keeps the names the store maps
\* at that moment
Issue(c, call) ==
    /\ calls[c].state = "idle"
    /\ calls' = [calls EXCEPT ![c] = [state |-> "pending", name |-> call.name,
                                      arguments |-> call.arguments,
                                      seen |-> DOMAIN saved_requests]]
    /\ UNCHANGED <<SAVE_REQUESTS_TO_FILE, ALLOWED_DOMAINS, BLOCKED_DOMAINS,
                   saved_requests, history, files, now, probe, last>>

\* the event loop runs handle_call_tool for a pending call, from start to end
Run(c, outcome) ==
    /\ calls[c].state = "pending"
    /\ Done(calls[c].name,
            handle_call_tool(saved_requests, history, now, ALLOWED_DOMAINS,
                             BLOCKED_DOMAINS, calls[c].name, calls[c].arguments,
                             outcome))
    /\ calls' = [calls EXCEPT ![c] = [state |-> "done", name |-> calls[c].name,
                                      arguments |-> calls[c].arguments,
                                      seen |-> calls[c].seen, ret |-> last'.ret]]

\* no client has issued a call yet
AllIdle == \A c \in Clients : calls[c].state = "idle"

\* The history log and the dispatcher: ad-hoc dispatch, clear, stats, import
Next ==
    \/ Tick
    \/ \E args \in SendArgs, outcome \in Outcomes : SendRequest(args, outcome)
    \/ ClearHistory
    \/ GetStats
    \/ \E data \in LogSnapshots : ImportData(data)

Spec == Init /\ [][Next]_vars

\* Appends alone: every history entry comes from add_to_history
NextAppend ==
    \/ Tick
    \/ \E args \in SendArgs, outcome \in Outcomes : SendRequest(args, outcome)

SpecAppend == Init /\ [][NextAppend]_vars

\* The template store with load-and-execute
NextStore ==
    \/ Tick
    \/ \E args \in SendArgs, outcome \in StoreOutcomes : SendRequest(args, outcome)
    \/ \E name \in StoreNames, overrides \in StoreOverrides, outcome \in StoreOutcomes :
           LoadRequest(name, overrides, outcome)
    \/ \E name \in StoreNames, args \in StoreArgs : SaveRequest(name, args)
    \/ \E name \in StoreNames, args \in StoreUpdateArgs : UpdateRequest(name, args)
    \/ \E name \in StoreNames : DeleteRequest(name)
    \/ \E data \in StoreSnapshots : ImportData(data)

SpecStore == Init /\ [][NextStore]_vars

\* The template store on two names, with statistics
NextTemplates ==
    \/ Tick
    \/ \E name \in TemplateNames, args \in TemplateArgs : SaveRequest(name, args)
    \/ \E name \in TemplateNames, args \in StoreUpdateArgs : UpdateRequest(name, args)
    \/ \E name \in TemplateNames : DeleteRequest(name)
    \/ \E data \in TemplateSnapshots : ImportData(data)
    \/ GetStats

SpecTemplates == Init /\ [][NextTemplates]_vars

\* Both stores with their reads, at one reading of the clock: the queries go by
\* the order of the log, not by its timestamps
NextQuery ==
    \/ \E args \in QuerySendArgs, outcome \in QueryOutcomes : SendRequest(args, outcome)
    \/ \E limit \in QueryLimits : GetHistory(limit)
    \/ \E url \in QueryUrls, limit \in QueryLimits : GetHistoryByUrl(url, limit)
    \/ \E method \in QueryMethods, limit \in QueryLimits :
           GetHistoryByMethod(method, limit)
    \/ ClearHistory
    \/ GetStats
    \/ \E name \in StoreNames, args \in TemplateArgs : SaveRequest(name, args)
    \/ \E name \in StoreNames, args \in StoreUpdateArgs : UpdateRequest(name, args)
    \/ \E name \in StoreNames : DeleteRequest(name)
    \/ ListSavedRequests
    \/ \E name \in StoreNames : GetRequest(name)

SpecQuery == Init /\ [][NextQuery]_vars

\* The log under dispatch, import of foreign snapshots and import of its own
\* export
NextRoundTrip ==
    \/ Tick
    \/ \E args \in SendArgs, outcome \in StoreOutcomes : SendRequest(args, outcome)
    \/ \E data \in LogSnapshots : ImportData(data)
    \/ RoundTrip

SpecRoundTrip == Init /\ [][NextRoundTrip]_vars

\* Load-and-execute on one template
NextLoad ==
    \/ \E name \in StoreNames, args \in LoadArgs : SaveRequest(name, args)
    \/ \E name \in StoreNames : DeleteRequest(name)
    \/ \E name \in StoreNames, overrides \in LoadOverrides, outcome \in LoadOutcomes :
           LoadRequest(name, overrides, outcome)

SpecLoad == Init /\ [][NextLoad]_vars

\* The mutators with persistence on and writes that can fail
NextPersist ==
    \/ \E name \in StoreNames, args \in PersistArgs : SaveRequest(name, args)
    \/ \E name \in StoreNames, args \in StoreUpdateArgs : UpdateRequest(name, args)
    \/ \E name \in StoreNames : DeleteRequest(name)
    \/ \E args \in PersistArgs, outcome \in PersistOutcomes : SendRequest(args, outcome)
    \/ ClearHistory
    \/ \E data \in PersistSnapshots : ImportData(data)

SpecPersist == InitPersist /\ [][NextPersist]_vars

\* Calls one at a time, then one call of each of two clients at the same time
NextConcurrent ==
    \/ \E args \in SendArgs, outcome \in StoreOutcomes :
           AllIdle /\ SendRequest(args, outcome)
    \/ \E name \in StoreNames, args \in StoreArgs : AllIdle /\ SaveRequest(name, args)
    \/ \E c \in Clients, call \in ConcurrentCalls : Issue(c, call)
    \/ \E c \in Clients, outcome \in StoreOutcomes : Run(c, outcome)

SpecConcurrent == Init /\ [][NextConcurrent]_vars

\* The domain policy as a function of the configuration and the URL: one call
\* per run, on any configuration and any URL
NextPolicy ==
    \/ \E u \in Probes : last.op = "start" /\ IsUrlAllowed(u)
    \/ \E u \in Probes : last.op = "start" /\ ValidateUrl(u)

SpecPolicy == InitPolicy /\ [][NextPolicy]_vars

-----------------------------------------------------------------------------
(* The claims *)

\* a send_request that wrote a history entry
Appends ==
    \E args \in SendArgs, outcome \in Outcomes :
        SendRequest(args, outcome) /\ last'.ret \in {"completed", "request_failed"}

\* the last call was a send_request that wrote a history entry
Appended == last.op = "send_request" /\ last.ret \in {"completed", "request_failed"}

\* C1: the id add_to_history assigns is greater than every id it assigned earlier
\* and is never reused: under appends alone no two entries of the log carry the
\* same id, and the entry just written carries the greatest id of the log.
C1_IdsNeverReused ==
    /\ \A i, j \in 1..Len(history) : i # j => history[i].id # history[j].id
    /\ Appended => \A i \in 2..Len(history) : history[1].id > history[i].id

\* C2: the history log never holds more than MAX_HISTORY entries, whatever
\* appends, clears and imports ran, and an append to a full log keeps the new
\* entry and drops the oldest one.
C2_LogBounded ==
    /\ [](Len(history) <= MAX_HISTORY)
    /\ [][(Appends /\ Len(history) = MAX_HISTORY)
            => (/\ Len(history') = MAX_HISTORY
                /\ Tail(history') = SubSeq(history, 1, MAX_HISTORY - 1))]_vars

C2_Witness == Appended /\ Len(history) = MAX_HISTORY /\ history[1].id = MAX_HISTORY + 1

\* C3: after any sequence of appends the ids of the log decrease strictly from
\* front to back.
C3_IdsDecrease ==
    \A i \in 1..(Len(history) - 1) : history[i].id > history[i + 1].id

\* the entries of the log that completed with a status code below 400
Successes == {i \in 1..Len(history) : \E c \in history[i].response.status_code : c < 400}

\* C4: stats() never raises, and its success rate is the percentage of entries
\* with a status code below 400, an entry without status code counting as not
\* successful.
C4_StatsNeverRaises ==
    last.op = "get_stats"
        => /\ last.ret = "stats"
           /\ history # <<>>
                => last.stats.success_rate
                     = SuccessRate(Cardinality(Successes), Len(history))

\* C5: an import that returns False leaves the template store and the history
\* log as they were.
C5_FailedImportChangesNothing ==
    [][((\E data \in LogSnapshots : ImportData(data)) /\ last'.ret = "False")
         => UNCHANGED <<saved_requests, history>>]_vars

\* C6: a save under a name that already maps to a template reports that the
\* name exists and leaves the template store unchanged.
C6_SaveNeverOverwrites ==
    [][\A name \in StoreNames, args \in StoreArgs :
         (SaveRequest(name, args) /\ name \in DOMAIN saved_requests)
             => (last'.ret = "already_exists" /\ UNCHANGED saved_requests)]_vars

\* an entry of the list, trimmed and non-empty, occurs in the host,
\* case-insensitively
HostHasEntry(list, host) ==
    \E i \in DOMAIN list :
        LET e == Lower(Strip(list[i]))
        IN  e # <<>> /\ Contains(Lower(host), e)

AllBlank(list) == \A i \in DOMAIN list : Strip(list[i]) = <<>>

\* the last call was is_url_allowed on a URL with an authority part
PolicyAsked == last.op = "is_url_allowed" /\ probe.slashes

\* C7: a URL whose host contains a non-empty trimmed block-list entry,
\* case-insensitively, is rejected even if the host matches the allow-list too;
\* a block-list of empty and whitespace-only entries decides as no block-list.
C7_BlockListFirst ==
    PolicyAsked
        => /\ HostHasEntry(BLOCKED_DOMAINS, probe.host) => last.ret = "False"
           /\ AllBlank(BLOCKED_DOMAINS)
                => ((last.ret = "True")
                      = is_url_allowed(ALLOWED_DOMAINS, <<>>, UrlString(probe)))

C7_Witness ==
    /\ PolicyAsked
    /\ HostHasEntry(BLOCKED_DOMAINS, probe.host)
    /\ HostHasEntry(ALLOWED_DOMAINS, probe.host)
    /\ last.ret = "False"

\* C8: with a non-empty allow-list a URL is allowed only if its host, not its
\* userinfo or port, contains an allow-list entry.
C8_AllowedByHost ==
    (PolicyAsked /\ probe.scheme # <<>> /\ ALLOWED_DOMAINS # <<>> /\ last.ret = "True")
        => HostHasEntry(ALLOWED_DOMAINS, probe.host)

\* the call changed neither store and issued no request
NothingDone == last'.net = FALSE /\ UNCHANGED <<history, saved_requests>>

C10_FailureRecorded ==
    [][\A args \in SendArgs, outcome \in Outcomes :
         (/\ SendRequest(args, outcome)
          /\ outcome.kind = "exception"
          /\ validate_url(ALLOWED_DOMAINS, BLOCKED_DOMAINS, args["url"]))
             => /\ Len(history') >= 1
                /\ Tail(history') = Take(history, MAX_HISTORY - 1)
                /\ "error" \in DOMAIN history'[1].response
                /\ history'[1].response["error"] = outcome.error
                /\ history'[1].response.status_code = None
                /\ history'[1].request.method = {Upper(args["method"])}
                /\ history'[1].request.url = {args["url"]}
                /\ history'[1].request.params = GetOr(args, "params", EmptyDict)
                /\ history'[1].request.timeout = {GetOr(args, "timeout", DEFAULT_TIMEOUT)}
                /\ \A k \in DOMAIN GetOr(args, "headers", EmptyDict) :
                       /\ k \in DOMAIN history'[1].request.headers
                       /\ history'[1].request.headers[k] = args["headers"][k]]_vars

C10_Witness ==
    /\ last.op = "send_request"
    /\ last.ret = "request_failed"
    /\ Len(history) = MAX_HISTORY
    /\ "error" \in DOMAIN history[1].response

\* the content lengths a response declares: the numbers its Content-Length
\* header spells
Declared(outcome) ==
    UNION {int(s) : s \in HeaderGet(outcome.headers, "content-length")}

\* the call completed: a response that declares no length above the maximum, or
\* a transport failure
Completes(outcome) ==
    outcome.kind = "exception" \/ \A n \in Declared(outcome) : n <= MAX_RESPONSE_SIZE

\* C11: a dispatch that passes validation and completes, with any HTTP status
\* or with a transport failure, puts exactly one entry at the front of the
\* history log; a response, 2xx or not, is recorded with its status code and
\* without an error.
C11_CompletedDispatchRecorded ==
    [][\A args \in SendArgs, outcome \in Outcomes :
         (/\ SendRequest(args, outcome)
          /\ validate_url(ALLOWED_DOMAINS, BLOCKED_DOMAINS, args["url"])
          /\ Completes(outcome))
             => /\ Len(history') >= 1
                /\ Tail(history') = Take(history, MAX_HISTORY - 1)
                /\ outcome.kind = "response"
                     => /\ history'[1].response.status_code = {outcome.status_code}
                        /\ "error" \notin DOMAIN history'[1].response]_vars

\* C12: a response whose declared content length exceeds MAX_RESPONSE_SIZE is
\* reported as too large, not as a failed request, and writes nothing to the
\* history log; a declared length equal to MAX_RESPONSE_SIZE is accepted and
\* recorded.
C12_OversizedNotRecorded ==
    [][\A args \in SendArgs, outcome \in Outcomes :
         (/\ SendRequest(args, outcome)
          /\ validate_url(ALLOWED_DOMAINS, BLOCKED_DOMAINS, args["url"])
          /\ outcome.kind = "response")
             => /\ (\E n \in Declared(outcome) : n > MAX_RESPONSE_SIZE)
                     => /\ last'.ret = "too_large"
                        /\ last'.ret # "request_failed"
                        /\ UNCHANGED <<history, saved_requests>>
                /\ Declared(outcome) = {MAX_RESPONSE_SIZE}
                     => /\ last'.ret = "completed"
                        /\ Len(history') >= 1
                        /\ history'[1].response.status_code = {outcome.status_code}]_vars

C12_Witness == last.op = "send_request" /\ last.ret = "too_large" /\ history # <<>>

\* a successful import of a snapshot that carries history
ImportsLog(data) ==
    ImportData(data) /\ "history" \in DOMAIN data /\ last'.ret = "True"

\* the ids of the entries of a list
Ids(entries) == {entries[i].id : i \in 1..Len(entries)}

\* C13: an import skips every snapshot entry whose id is in the log: a snapshot
\* all of whose ids are in the log leaves the log length unchanged, and no id of
\* the log occurs more often after the import than before.
C13_ImportSkipsKnownIds ==
    [][\A data \in LogSnapshots :
         ImportsLog(data)
             => /\ Ids(Values(data["history"])) \subseteq Ids(history)
                     => Len(history') = Len(history)
                /\ \A id \in Ids(history) :
                       Cardinality({i \in 1..Len(history') : history'[i].id = id})
                         <= Cardinality({i \in 1..Len(history) : history[i].id = id})]_vars

\* the log held one entry, id 1, written by a dispatch, and an import of the
\* snapshot whose only entry has id 1 left it alone
C13_Witness ==
    /\ last.op = "import_data"
    /\ last.ret = "True"
    /\ Len(history) = 1
    /\ history[1].id = 1
    /\ history[1].request.method = {"POST"}

\* the log before the import followed by the snapshot entries of new id
Candidates(data) ==
    history \o SelectSeq(Values(data["history"]), LAMBDA e : e.id \notin Ids(history))

\* C14: after a successful import the log holds entries of the previous log and
\* snapshot entries of new id only, in descending order of timestamp, as many
\* as MAX_HISTORY allows, and no entry left out is more recent than one kept.
C14_ImportMergesByTimestamp ==
    [][\A data \in LogSnapshots :
         ImportsLog(data)
             => LET cand == Candidates(data)
                IN  /\ Len(history') = IF Len(cand) < MAX_HISTORY THEN Len(cand)
                                       ELSE MAX_HISTORY
                    /\ \A i \in 1..(Len(history') - 1) :
                           history'[i].timestamp >= history'[i + 1].timestamp
                    /\ \A i \in 1..Len(history') :
                           Count(history', history'[i]) <= Count(cand, history'[i])
                    /\ \A j \in 1..Len(cand) :
                           Count(history', cand[j]) < Count(cand, cand[j])
                             => \A i \in 1..Len(history') :
                                    history'[i].timestamp >= cand[j].timestamp]_vars

\* an import filled the log with the most recent entries of a longer snapshot
C14_Witness ==
    /\ last.op = "import_data"
    /\ last.ret = "True"
    /\ Len(history) = MAX_HISTORY
    /\ history[1].id = 2 * MAX_HISTORY + 1

\* C15: an import merges templates by name, the snapshot winning: every name
\* of the snapshot maps afterwards to the snapshot's template, and every other
\* template of the store is as it was.
C15_ImportTemplatesLastWriterWins ==
    [][\A data \in TemplateSnapshots :
         (ImportData(data) /\ "saved_requests" \in DOMAIN data)
             => LET snap == data["saved_requests"]
                IN  /\ DOMAIN saved_requests' = DOMAIN saved_requests \cup DOMAIN snap
                    /\ \A n \in DOMAIN snap : saved_requests'[n] = snap[n]
                    /\ \A n \in (DOMAIN saved_requests) \ DOMAIN snap :
                           saved_requests'[n] = saved_requests[n]]_vars

\* an import put the snapshot's x next to a y that a save had written
C15_Witness ==
    /\ last.op = "import_data"
    /\ DOMAIN saved_requests = {"x", "y"}
    /\ saved_requests["x"] = SnapTemplate
    /\ saved_requests["y"].description = "mine"

\* C18: delete of a present name reports the deletion and removes exactly that
\* template, delete of an absent name reports not found and changes no
\* template; every other template and the history log stay as they were.
C18_DeleteRemovesOne ==
    [][\A name \in TemplateNames :
         DeleteRequest(name)
             => /\ IF name \in DOMAIN saved_requests
                   THEN /\ last'.ret = "deleted"
                        /\ DOMAIN saved_requests' = (DOMAIN saved_requests) \ {name}
                   ELSE /\ last'.ret = "not_found"
                        /\ DOMAIN saved_requests' = DOMAIN saved_requests
                /\ \A n \in DOMAIN saved_requests' : saved_requests'[n] = saved_requests[n]
                /\ UNCHANGED history]_vars

C18_Witness ==
    /\ last.op = "delete_request"
    /\ last.ret = "deleted"
    /\ DOMAIN saved_requests = {"y"}
    /\ history # <<>>

\* C19: stats() on an empty history log raises nothing and returns a total of
\* zero, a success rate of zero and empty method and domain breakdowns, however
\* many templates are saved.
C19_StatsOfEmptyLog ==
    (last.op = "get_stats" /\ history = <<>>)
        => /\ last.ret = "stats"
           /\ last.stats.total_requests = 0
           /\ last.stats.history_entries = 0
           /\ last.stats.success_rate = 0
           /\ last.stats.common_methods = <<>>
           /\ last.stats.common_domains = <<>>
           /\ last.stats.saved_requests = Cardinality(DOMAIN saved_requests)

C19_Witness ==
    /\ last.op = "get_stats"
    /\ history = <<>>
    /\ Cardinality(DOMAIN saved_requests) = 2
    /\ last.ret = "stats"

\* C16: update of an existing template replaces the fields supplied, keeps every
\* other field, saved_at and id included, sets updated_at and reports the
\* update; update of an absent name reports not found and changes nothing.
C16_UpdateReplacesSuppliedFields ==
    [][\A name \in StoreNames, args \in StoreUpdateArgs :
         UpdateRequest(name, args)
             => /\ IF name \in DOMAIN saved_requests
                   THEN LET old == saved_requests[name]
                            new == saved_requests'[name]
                        IN  /\ last'.ret = "updated"
                            /\ DOMAIN new = DOMAIN old \cup DOMAIN args \cup {"updated_at"}
                            /\ \A k \in DOMAIN args : new[k] = args[k]
                            /\ \A k \in (DOMAIN old) \ (DOMAIN args \cup {"updated_at"}) :
                                   new[k] = old[k]
                            /\ new["updated_at"] = now
                   ELSE last'.ret = "not_found" /\ UNCHANGED saved_requests
                /\ UNCHANGED history]_vars

BothDone(tool) ==
    \A c \in Clients : calls[c].state = "done" /\ calls[c].name = tool

C21_CallerHeadersReplaceDefaults ==
    [][\A args \in SendArgs, outcome \in Outcomes :
         (/\ SendRequest(args, outcome)
          /\ last'.ret \in {"completed", "request_failed"})
             => LET caller == GetOr(args, "headers", EmptyDict)
                    final == history'[1].request.headers
                IN  /\ \A k \in DOMAIN caller :
                           /\ k \in DOMAIN final
                           /\ final[k] = caller[k]
                           /\ \A d \in DOMAIN final : LowerName(d) = LowerName(k) => d = k
                    /\ \A d \in DOMAIN DEFAULT_HEADERS :
                           (\A k \in DOMAIN caller : LowerName(k) # LowerName(d))
                               => d \in DOMAIN final /\ final[d] = DEFAULT_HEADERS[d]]_vars

\* the entry records a completed call: a status code and no error
IsCompleted(entry) ==
    entry.response.status_code # None /\ "error" \notin DOMAIN entry.response

\* the entry records a transport failure: an error and no status code
IsFailure(entry) ==
    entry.response.status_code = None /\ "error" \in DOMAIN entry.response

\* C23: every entry the dispatcher writes is of exactly one variant: a status
\* code without an error, or an error without a status code.
C23_OneVariant ==
    \A i \in 1..Len(history) : IsCompleted(history[i]) # IsFailure(history[i])

C23_Witness ==
    /\ Len(history) = 2
    /\ IsFailure(history[1])
    /\ IsCompleted(history[2])
    /\ history[2].response.status_code = {404}

\* the first `limit` entries of the log that satisfy Matches, in the order of
\* the log
FirstMatches(Matches(_), limit) ==
    LET M == {i \in 1..Len(history) : Matches(history[i])}
        n == IF Cardinality(M) < limit THEN Cardinality(M) ELSE limit
        nth(j) == CHOOSE i \in M : Cardinality({k \in M : k < i}) = j - 1
    IN  [j \in 1..n |-> history[nth(j)]]

\* C22: the filters by URL and by method return the first `limit` entries of
\* the log whose URL, respectively method, equals the argument up to case, in
\* the order of the log, and nothing else; they leave the log alone.
C22_FiltersReturnFirstMatches ==
    /\ last.op = "get_history_by_url"
         => last.result
              = FirstMatches(LAMBDA e : \E u \in e.request.url : Lower(u) = Lower(last.arg),
                             last.limit)
    /\ last.op = "get_history_by_method"
         => last.result
              = FirstMatches(LAMBDA e : \E m \in e.request.method :
                                           Upper(m) = Upper(last.arg),
                             last.limit)

\* a query by URL returned entries whose URL differs from the argument in case
\* only, and passed over a newer entry of another URL
C22_Witness ==
    /\ last.op = "get_history_by_url"
    /\ Len(history) > MAX_HISTORY - 1
    /\ Len(last.result) = MAX_HISTORY - 1
    /\ last.limit = MAX_HISTORY
    /\ history[1].request.url = {UrlAPath}
    /\ last.result[1].request.url # {last.arg}

\* C26: save, update, delete, list and get leave the history log unchanged;
\* append, recent, the filters, stats and clear leave the template store
\* unchanged; clear returns the number of entries the log held and empties it.
\* Every call records its name in last.op, so last'.op names the call of a step.
C26_StoresAreSeparate ==
    [][/\ last'.op \in {"save_request", "update_request", "delete_request",
                        "list_saved_requests", "get_request"}
            => UNCHANGED history
       /\ last'.op \in {"send_request", "get_history", "get_history_by_url",
                        "get_history_by_method", "get_stats", "clear_history"}
            => UNCHANGED saved_requests
       /\ last'.op = "clear_history"
            => /\ last'.count = Len(history)
               /\ history' = <<>>]_vars

C26_Witness ==
    /\ last.op = "clear_history"
    /\ last.count = MAX_HISTORY
    /\ history = <<>>
    /\ "x" \in DOMAIN saved_requests

\* importing data twice leaves the stores as importing it once
ImportIdempotent(data) ==
    LET once  == import_data(saved_requests, history, data)
        twice == import_data(once.saved_requests, once.history, data)
    IN  /\ twice.saved_requests = once.saved_requests
        /\ twice.history = once.history

\* C27: in every reachable state import(export()) returns True and leaves the
\* template mapping and the history sequence, contents and order, as they
\* were; and importing a snapshot twice gives the state of importing it once.
C27_ExportImportRoundTrip ==
    /\ [][RoundTrip => (last'.ret = "True" /\ UNCHANGED <<saved_requests, history>>)]_vars
    /\ [](\A data \in LogSnapshots \cup {export_data(history, saved_requests, now)} :
              ImportIdempotent(data))

\* C25: load-and-execute leaves the template store as it was, the headers of
\* the stored template included, whatever the overrides and also when the
\* dispatch injects a Content-Type header.  Every call records its name in
\* last.op, so last'.op names the call of a step.
C25_LoadNeverMutatesStore ==
    [][last'.op = "load_request" => UNCHANGED saved_requests]_vars

\* a load without overrides dispatched the stored headers with an injected
\* Content-Type, and the stored headers do not hold it
C25_Witness ==
    /\ last.op = "load_request"
    /\ last.ret = "completed"
    /\ "headers" \in DOMAIN last.args
    /\ last.args["headers"] = saved_requests["x"].headers
    /\ "Content-Type" \in DOMAIN history[1].request.headers
    /\ "Content-Type" \notin DOMAIN saved_requests["x"].headers

\* C24: with persistence on, a call whose write of a backing file failed
\* returns its normal result and leaves the in-memory stores in the mutated
\* state: the saved template is stored, the updated fields are set, the
\* deleted name is gone, the new entry heads the log, the log is empty after a
\* clear, the imported templates and entries are merged in.  Every call records
\* its name in last.op, so last'.op names the call of a step.
C24_FailedWriteKeepsMutation ==
    [][(SAVE_REQUESTS_TO_FILE /\ last'.failed # {}) =>
        /\ last'.op = "save_request" =>
              /\ last'.ret = "saved"
              /\ \E name \in StoreNames \ DOMAIN saved_requests, args \in PersistArgs :
                    /\ name \in DOMAIN saved_requests'
                    /\ saved_requests'[name].url = args["url"]
        /\ last'.op = "update_request" =>
              /\ last'.ret = "updated"
              /\ \E name \in StoreNames, args \in StoreUpdateArgs :
                    /\ saved_requests'[name].method = args["method"]
                    /\ "updated_at" \in DOMAIN saved_requests'[name]
        /\ last'.op = "delete_request" =>
              /\ last'.ret = "deleted"
              /\ \E name \in StoreNames \cap DOMAIN saved_requests :
                    name \notin DOMAIN saved_requests'
        /\ last'.op = "send_request" =>
              /\ last'.ret \in {"completed", "request_failed"}
              /\ Len(history') = IF Len(history) < MAX_HISTORY THEN Len(history) + 1
                                 ELSE MAX_HISTORY
              /\ \E args \in PersistArgs, outcome \in PersistOutcomes :
                    /\ history'[1].request.url = {args["url"]}
                    /\ history'[1].response.status_code = {outcome.status_code}
        /\ last'.op = "clear_history" =>
              /\ last'.ret = "cleared"
              /\ history' = <<>>
        /\ last'.op = "import_data" =>
              /\ last'.ret = "True"
              /\ \E data \in PersistSnapshots :
                    /\ \A n \in DOMAIN data["saved_requests"] :
                          /\ n \in DOMAIN saved_requests'
                          /\ saved_requests'[n] = data["saved_requests"][n]
                    /\ Len(history) < MAX_HISTORY
                          => \A i \in 1..Len(data["history"]) :
                                \E j \in 1..Len(history') :
                                    history'[j].id = data["history"][i].v.id
        /\ last'.op \in {"save_request", "update_request", "delete_request",
                         "send_request", "clear_history", "import_data"}
      ]_vars

\* a template was saved in memory while the write of the templates file failed:
\* the file does not hold it
C24_Witness ==
    /\ SAVE_REQUESTS_TO_FILE
    /\ last.op = "save_request"
    /\ last.failed = {"requests"}
    /\ last.ret = "saved"
    /\ "x" \in DOMAIN saved_requests
    /\ files.requests # <<"json", saved_requests>>

====
